---- MODULE Spec2Model ----
(***************************************************************************)
(* A model of loopai's completion-gated retry executor:                    *)
(*   - utils.py: Task / NaturalLanguageTask / ExecutionResult, the command *)
(*     runner, the condition evaluator, the backoff controller and the     *)
(*     assistant-backed synthesis helpers;                                 *)
(*   - task_executor.py: the plain retry loop;                             *)
(*   - natural_language_executor.py: the self-improving retry loop;        *)
(*   - condition_checker.py: the logging condition evaluator.              *)
(*                                                                         *)
(* Python values.  An Optional[T] is a sequence of length at most one:     *)
(* None is <<>> and a present value v is <<v>>.  A Python str is a         *)
(* sequence of one-character strings, so "pattern in output" is a real     *)
(* substring test.  A dict read with d['k'] raises KeyError when the key   *)
(* is absent; a condition record therefore carries every key as an         *)
(* Optional and the evaluators say where they raise.                       *)
(***************************************************************************)
EXTENDS Integers, Sequences, FiniteSets, TLC

VARIABLES
    pc,           \* position of the running executor: "idle", "loop", "improve", "analyze", "done", "raised"
    attempt,      \* the loop variable `attempt` of the running retry loop
    max_attempts, \* the local max_attempts of the running retry loop
    ret,          \* Optional[bool]: the value the retry loop returned
    trace,        \* history: every command run, wait, assistant request and verdict, in order
    task,         \* the plain Task driven by TaskExecutor
    nltask,       \* the NaturalLanguageTask driven by NaturalLanguageTaskExecutor
    subrun,       \* history: Optional record of the latest corrective sub-task run
    cond,         \* the condition record handed to the evaluators
    ctask,        \* the task state handed to the evaluators
    probe,        \* what the environment answers to the condition's external probe
    verdict,      \* Optional: outcome of the latest utils.check_condition call
    cverdict,     \* Optional: outcome of the latest ConditionChecker._check_single_condition call
    condition_history, \* ConditionChecker.condition_history
    cool_down,    \* Optional: outcome of the latest should_apply_cool_down call
    all_verdicts, \* Optional: the all-conditions verdicts of the orderings of one condition sequence
    outcome,      \* Optional: the latest execute_command call and the ExecutionResult it returned
    seconds,      \* the argument of the apply_cool_down call
    remaining,    \* the loop variable `remaining` of apply_cool_down
    slept,        \* history: how many time.sleep(1) the apply_cool_down call has made
    tasks,        \* the collection handed to execute_tasks
    results,      \* the dict `results` execute_tasks builds, keyed by task id
    current       \* how many tasks of the collection execute_tasks has started

vars == <<pc, attempt, max_attempts, ret, trace, task, nltask, subrun,
          cond, ctask, probe, verdict, cverdict, condition_history,
          cool_down, all_verdicts, outcome, seconds, remaining, slept,
          tasks, results, current>>

loopVars == <<pc, attempt, max_attempts, ret, trace>>
evalVars == <<cond, ctask, probe, verdict, cverdict, condition_history>>
coolVars == <<seconds, remaining, slept>>
pureVars == <<cool_down, all_verdicts, outcome, coolVars>>
batchVars == <<tasks, results, current>>

----------------------------------------------------------------------------
(* Bounds of the model *)

\* largest max_retries a task is constructed with
MaxRetries == 3
\* longest completion-condition sequence a task is constructed with
MaxConds == 2
\* longest captured output / pattern the evaluators are tried on
MaxStrLen == 2
\* number of evaluations a ConditionChecker performs
MaxEvals == 2
\* largest collection handed to execute_tasks
MaxBatch == 2

----------------------------------------------------------------------------
(* Python values *)

None == <<>>
Some(v) == <<v>>
Val(o) == o[1]

\* the empty str
EmptyStr == <<>>

\* pattern in output (str.__contains__)
Contains(output, pattern) ==
    \E i \in 0..(Len(output) - Len(pattern)) :
        SubSeq(output, i + 1, i + Len(pattern)) = pattern

\* number of occurrences of x in the sequence s
Count(s, x) == Cardinality({i \in DOMAIN s : s[i] = x})

\* an entry of the history `trace`: who ("main": the task the loop was called
\* on, "sub": a corrective sub-task) did what
Ev(who, op) == [who |-> who, op |-> op]

\* the entry of a command run: how the child process ended
RunOps == {"run_exit0", "run_nonzero", "run_timeout", "run_fault"}

\* a function that returned v / that raised
Return(v) == [raised |-> FALSE, value |-> v]
Raise == [raised |-> TRUE, value |-> FALSE]

----------------------------------------------------------------------------
(* utils.py: data classes *)

\* Task(id, name, command, completion_conditions, max_retries=3, timeout=300)
DefaultMaxRetries == 3
DefaultTimeout == 300

Task(id, command, completion_conditions, max_retries, timeout) ==
    [id |-> id, command |-> command,
     completion_conditions |-> completion_conditions,
     max_retries |-> max_retries, timeout |-> timeout,
     retry_count |-> 0, last_error |-> None, last_output |-> None]

\* ExecutionResult(success, output=None, error=None)
ExecutionResult(success, output, error) ==
    [success |-> success, output |-> output, error |-> error]

\* a condition record: a dict with a 'type' and kind-specific keys; an absent
\* key is None
Condition(type, path, pattern, url, command, prompt) ==
    [type |-> type, path |-> path, pattern |-> pattern, url |-> url,
     command |-> command, prompt |-> prompt]

\* NaturalLanguageTask(id, name, description, max_retries=3, timeout=300)
NaturalLanguageTask(id, description, max_retries, timeout) ==
    [id |-> id, description |-> description,
     max_retries |-> max_retries, timeout |-> timeout,
     retry_count |-> 0, last_error |-> None, last_output |-> None,
     generated_command |-> None, generated_conditions |-> None,
     subtasks |-> None]

----------------------------------------------------------------------------
(* utils.py: the command runner *)

\* what the child process does: it exits with a return code and both
\* streams captured, it outlives the timeout, or subprocess.run faults
Exit(returncode, stdout, stderr) ==
    [kind |-> "exit", returncode |-> returncode, stdout |-> stdout, stderr |-> stderr]
TimeoutExpired == [kind |-> "timeout", returncode |-> 0, stdout |-> EmptyStr, stderr |-> EmptyStr]
Fault == [kind |-> "fault", returncode |-> 0, stdout |-> EmptyStr, stderr |-> EmptyStr]

\* the process behaviours the retry loops are run against
Fates == {Exit(0, EmptyStr, EmptyStr), Exit(0, <<"d">>, EmptyStr),
          Exit(1, EmptyStr, EmptyStr), Exit(1, <<"d">>, <<"e">>),
          TimeoutExpired, Fault}

\* f"コマンドがタイムアウトしました ({timeout}秒)"
TimeoutError(timeout) == <<"T", ToString(timeout)>>
\* f"コマンド実行中にエラーが発生しました: {str(e)}"
FaultError == <<"F">>

\* the history entry of execute_command(...) meeting `fate`
RunEvent(who, fate) ==
    <<Ev(who, IF fate.kind = "exit"
              THEN IF fate.returncode = 0 THEN "run_exit0" ELSE "run_nonzero"
              ELSE IF fate.kind = "timeout" THEN "run_timeout" ELSE "run_fault")>>

\* execute_command reporting the captured stderr after exit code 0 as well
execute_command_keeping_stderr(command, timeout, fate) ==
    IF fate.kind = "exit"
    THEN IF fate.returncode = 0
         THEN ExecutionResult(TRUE, Some(fate.stdout), Some(fate.stderr))
         ELSE ExecutionResult(FALSE, Some(fate.stdout), Some(fate.stderr))
    ELSE IF fate.kind = "timeout"
         THEN ExecutionResult(FALSE, None, Some(TimeoutError(timeout)))
         ELSE ExecutionResult(FALSE, None, Some(FaultError))

\* execute_command whose timeout message leaves out the bound
execute_command_unnamed_timeout(command, timeout, fate) ==
    IF fate.kind = "exit"
    THEN IF fate.returncode = 0
         THEN ExecutionResult(TRUE, Some(fate.stdout), None)
         ELSE ExecutionResult(FALSE, Some(fate.stdout), Some(fate.stderr))
    ELSE IF fate.kind = "timeout"
         THEN ExecutionResult(FALSE, None, Some(<<"T">>))
         ELSE ExecutionResult(FALSE, None, Some(FaultError))

execute_command(command, timeout, fate) ==
    IF fate.kind = "exit"
    THEN IF fate.returncode = 0
         THEN ExecutionResult(TRUE, Some(fate.stdout), None)
         ELSE ExecutionResult(FALSE, Some(fate.stdout), Some(fate.stderr))
    ELSE IF fate.kind = "timeout"
         THEN ExecutionResult(FALSE, None, Some(TimeoutError(timeout)))
         ELSE ExecutionResult(FALSE, None, Some(FaultError))

----------------------------------------------------------------------------
(* utils.py: the condition evaluator.  The file system, the web, the test  *)
(* command and the assistant are outside the program: `pr` is what the     *)
(* environment answers to the one probe the condition makes.               *)

check_file_exists(file_path, pr) == pr
check_output_contains(output, pattern) == Contains(output, pattern)
check_output_not_contains(output, pattern) == ~Contains(output, pattern)
check_file_contains(file_path, pattern, pr) == pr
check_website_exists(url, pr) == pr
execute_test_command(command, pr) == pr
check_claude_code_confirmation(prompt, pr) == pr

\* Python's `not x` for an Optional[str]: None or the empty str
Falsy(o) == o = None \/ Val(o) = EmptyStr

\* check_condition raising on a kind it does not know
check_condition_strict(condition, t, pr) ==
    LET condition_type == condition.type IN
    IF condition_type = Some("file_exists")
    THEN IF condition.path = None THEN Raise
         ELSE Return(check_file_exists(Val(condition.path), pr))
    ELSE IF condition_type = Some("output_contains")
    THEN IF t.last_output = None THEN Return(FALSE)
         ELSE IF condition.pattern = None THEN Raise
         ELSE Return(check_output_contains(Val(t.last_output), Val(condition.pattern)))
    ELSE IF condition_type = Some("output_not_contains")
    THEN IF t.last_output = None THEN Return(TRUE)
         ELSE IF condition.pattern = None THEN Raise
         ELSE Return(check_output_not_contains(Val(t.last_output), Val(condition.pattern)))
    ELSE IF condition_type = Some("file_contains")
    THEN IF condition.path = None \/ condition.pattern = None THEN Raise
         ELSE Return(check_file_contains(Val(condition.path), Val(condition.pattern), pr))
    ELSE IF condition_type = Some("website_exists")
    THEN IF Falsy(condition.url) THEN Return(FALSE)
         ELSE Return(check_website_exists(Val(condition.url), pr))
    ELSE IF condition_type = Some("test_command")
    THEN IF Falsy(condition.command) THEN Return(FALSE)
         ELSE Return(execute_test_command(Val(condition.command), pr))
    ELSE IF condition_type = Some("claude_code_confirmation")
    THEN IF Falsy(condition.prompt) THEN Return(FALSE)
         ELSE Return(check_claude_code_confirmation(Val(condition.prompt), pr))
    ELSE Raise

check_condition(condition, t, pr) ==
    LET condition_type == condition.type IN
    IF condition_type = Some("file_exists")
    THEN IF condition.path = None THEN Raise
         ELSE Return(check_file_exists(Val(condition.path), pr))
    ELSE IF condition_type = Some("output_contains")
    THEN IF t.last_output = None THEN Return(FALSE)
         ELSE IF condition.pattern = None THEN Raise
         ELSE Return(check_output_contains(Val(t.last_output), Val(condition.pattern)))
    ELSE IF condition_type = Some("output_not_contains")
    THEN IF t.last_output = None THEN Return(TRUE)
         ELSE IF condition.pattern = None THEN Raise
         ELSE Return(check_output_not_contains(Val(t.last_output), Val(condition.pattern)))
    ELSE IF condition_type = Some("file_contains")
    THEN IF condition.path = None \/ condition.pattern = None THEN Raise
         ELSE Return(check_file_contains(Val(condition.path), Val(condition.pattern), pr))
    ELSE IF condition_type = Some("website_exists")
    THEN IF Falsy(condition.url) THEN Return(FALSE)
         ELSE Return(check_website_exists(Val(condition.url), pr))
    ELSE IF condition_type = Some("test_command")
    THEN IF Falsy(condition.command) THEN Return(FALSE)
         ELSE Return(execute_test_command(Val(condition.command), pr))
    ELSE IF condition_type = Some("claude_code_confirmation")
    THEN IF Falsy(condition.prompt) THEN Return(FALSE)
         ELSE Return(check_claude_code_confirmation(Val(condition.prompt), pr))
    ELSE Return(FALSE)

\* for condition in conditions[i..]: if not check_condition(...): return False
RECURSIVE check_all_from(_, _, _, _)
check_all_from(conditions, t, probes, i) ==
    IF i > Len(conditions) THEN Return(TRUE)
    ELSE LET r == check_condition(conditions[i], t, probes[i]) IN
         IF r.raised THEN Raise
         ELSE IF ~r.value THEN Return(FALSE)
         ELSE check_all_from(conditions, t, probes, i + 1)

check_all_conditions(t, probes) ==
    check_all_from(t.completion_conditions, t, probes, 1)

----------------------------------------------------------------------------
(* utils.py: the backoff controller *)

CoolDownSeconds == 60

\* should_apply_cool_down without the test of last_error
should_apply_cool_down_counting(t) ==
    IF t.retry_count = 0 THEN FALSE ELSE TRUE

\* should_apply_cool_down testing `not task.last_error` instead of `is None`
should_apply_cool_down_truthy(t) ==
    ~(t.retry_count = 0 \/ t.last_error = None \/ t.last_error = Some(EmptyStr))

should_apply_cool_down(t) ==
    IF t.retry_count = 0 \/ t.last_error = None THEN FALSE ELSE TRUE


\* apply_cool_down(): the blocking cool-down wait, as one entry of the history
apply_cool_down(who) == <<Ev(who, "cooldown")>>

\* time.sleep(secs) in a retry loop, as one entry of the history
sleep(who, secs) == <<Ev(who, "sleep" \o ToString(secs))>>

----------------------------------------------------------------------------
(* The condition records and tasks the executors are run on *)

FileExists(path) == Condition(Some("file_exists"), path, None, None, None, None)
OutputContains(pattern) == Condition(Some("output_contains"), None, pattern, None, None, None)
OutputNotContains(pattern) == Condition(Some("output_not_contains"), None, pattern, None, None, None)
FileContains(path, pattern) == Condition(Some("file_contains"), path, pattern, None, None, None)
WebsiteExists(url) == Condition(Some("website_exists"), None, None, url, None, None)
TestCommand(command) == Condition(Some("test_command"), None, None, None, command, None)
ClaudeCodeConfirmation(prompt) == Condition(Some("claude_code_confirmation"), None, None, None, None, prompt)
UnknownKind == Condition(Some("bogus"), None, None, None, None, None)
NoKind == Condition(None, None, None, None, None, None)

\* the condition records a task file declares for the retry loops
LoopConds == {OutputContains(Some(<<"d">>)), OutputContains(None),
              OutputNotContains(Some(<<"d">>)),
              FileExists(Some(<<"p">>)), FileExists(None),
              TestCommand(Some(<<"c">>)), UnknownKind}

CondSeqs == UNION {[1..n -> LoopConds] : n \in 0..MaxConds}

\* load_tasks_from_json: max_retries and the conditions are taken as written
Tasks == {Task("t", <<"c">>, cs, mr, DefaultTimeout) : cs \in CondSeqs, mr \in 0..MaxRetries}

----------------------------------------------------------------------------
(* utils.py: the assistant-backed synthesis helpers.  The assistant is     *)
(* outside the program: a reply is what `claude code` did with a prompt.   *)

\* the assistant exited 0 and `line` is the first usable line of its output
ReplyLine(line) == [kind |-> "line", line |-> line]
\* the assistant exited non-zero / outlived the timeout
ReplyNonZero == [kind |-> "nonzero", line |-> EmptyStr]
ReplyTimeout == [kind |-> "timeout", line |-> EmptyStr]

\* f"Claude Codeの実行中にエラーが発生しました: {str(e)}" / the timeout message
AssistantError == <<"A">>
AssistantTimeoutError == <<"A", "T">>

\* [raised, value: the command line, error: str(e)]
generate_command_from_description(description, timeout, reply) ==
    IF reply.kind = "line"
    THEN [raised |-> FALSE, value |-> reply.line, error |-> EmptyStr]
    ELSE IF reply.kind = "timeout"
    THEN [raised |-> TRUE, value |-> EmptyStr, error |-> AssistantTimeoutError]
    ELSE [raised |-> TRUE, value |-> EmptyStr, error |-> AssistantError]

\* the single default condition: output_contains "完了"
DonePattern == <<"d">>
DefaultConditions == <<OutputContains(Some(DonePattern))>>

\* A reply to the condition request: the assistant failed, its output has no
\* line starting with '{', the text from that line on is not JSON, or it
\* parses.  Text that starts with '{' parses to a dict, never to a list, so
\* `isinstance(conditions, list)` is false for every parsed reply.
JsonReplyKinds == {"failed", "no_json", "bad_json", "object"}

\* generate_completion_conditions returning no condition when the assistant
\* gave none
generate_completion_conditions_or_none(description, command, timeout, reply) ==
    IF reply = "object" THEN DefaultConditions ELSE <<>>

generate_completion_conditions(description, command, timeout, reply) ==
    IF reply = "failed" THEN DefaultConditions
    ELSE IF reply = "no_json" THEN DefaultConditions
    ELSE IF reply = "bad_json" THEN DefaultConditions
    ELSE DefaultConditions

analyze_failure_and_improve(t, timeout, reply) ==
    IF reply.kind = "line"
    THEN [raised |-> FALSE, value |-> reply.line, error |-> EmptyStr]
    ELSE IF reply.kind = "timeout"
    THEN [raised |-> TRUE, value |-> EmptyStr, error |-> AssistantTimeoutError]
    ELSE [raised |-> TRUE, value |-> EmptyStr, error |-> AssistantError]

\* the corrective sub-task's own budget and timeout
SubtaskMaxRetries == 2
SubtaskTimeout == 120

\* the single default condition of a sub-task: output_contains "成功"
SuccessPattern == <<"s">>
DefaultSubtaskConditions == <<OutputContains(Some(SuccessPattern))>>
\* f"echo '改善処理を実行します: {improvement_description}'"
DefaultSubtaskCommand == <<"echo">>

\* A reply to the sub-task request: kind as for the condition request; for
\* an "object" reply, `command` and `completion_conditions` are the values
\* of those keys of the parsed dict: None when the key is absent, else
\* Some(v) with v the Optional value (JSON null is None).
SubtaskReply(kind, command, completion_conditions) ==
    [kind |-> kind, command |-> command, completion_conditions |-> completion_conditions]

\* dict.get(key, default)
Get(entry, default) == IF entry = None THEN default ELSE Val(entry)

\* create_subtask_for_improvement handing the parent's sub-tasks on to the
\* sub-task it creates
create_subtask_sharing(main_task, improvement_description, timeout, reply) ==
    LET subtask_id == main_task.id \o "_sub_" \o ToString(main_task.retry_count + 1)
        fresh == [NaturalLanguageTask(subtask_id, improvement_description,
                                      SubtaskMaxRetries, SubtaskTimeout)
                     EXCEPT !.subtasks = main_task.subtasks]
    IN IF reply.kind = "object"
       THEN [fresh EXCEPT
                !.generated_command = Get(reply.command, Some(EmptyStr)),
                !.generated_conditions =
                    Get(reply.completion_conditions, Some(DefaultSubtaskConditions))]
       ELSE [fresh EXCEPT
                !.generated_command = Some(DefaultSubtaskCommand),
                !.generated_conditions = Some(DefaultSubtaskConditions)]

create_subtask_for_improvement(main_task, improvement_description, timeout, reply) ==
    LET subtask_id == main_task.id \o "_sub_" \o ToString(main_task.retry_count + 1)
        fresh == NaturalLanguageTask(subtask_id, improvement_description,
                                     SubtaskMaxRetries, SubtaskTimeout)
    IN IF reply.kind = "object"
       THEN [fresh EXCEPT
                !.generated_command = Get(reply.command, Some(EmptyStr)),
                !.generated_conditions =
                    Get(reply.completion_conditions, Some(DefaultSubtaskConditions))]
       ELSE [fresh EXCEPT
                !.generated_command = Some(DefaultSubtaskCommand),
                !.generated_conditions = Some(DefaultSubtaskConditions)]

----------------------------------------------------------------------------
(* task_executor.py: TaskExecutor *)

\* if should_apply_cool_down(task): apply_cool_down()
cool_down_if_needed(t, who) ==
    IF should_apply_cool_down(t) THEN apply_cool_down(who) ELSE <<>>

\* save_result keeping the error of an earlier attempt when the result has
\* none
save_result_keeping_error(t, result, events) ==
    [task |-> [t EXCEPT !.last_output = result.output,
                        !.last_error = IF result.error = None THEN t.last_error
                                       ELSE result.error,
                        !.retry_count = t.retry_count + 1],
     success |-> result.success,
     events |-> events]

\* save_result keeping the output of an earlier attempt when the result has
\* none
save_result_keeping_output(t, result, events) ==
    [task |-> [t EXCEPT !.last_output = IF result.output = None THEN t.last_output
                                        ELSE result.output,
                        !.last_error = result.error,
                        !.retry_count = t.retry_count + 1],
     success |-> result.success,
     events |-> events]

\* task.last_output = result.output; task.last_error = result.error;
\* task.retry_count += 1; return result.success
\* [task after the attempt, the returned success flag, history entries]
save_result(t, result, events) ==
    [task |-> [t EXCEPT !.last_output = result.output,
                        !.last_error = result.error,
                        !.retry_count = t.retry_count + 1],
     success |-> result.success,
     events |-> events]

\* TaskExecutor.execute_task: one attempt
execute_task(t, fate) ==
    save_result(t, execute_command(t.command, t.timeout, fate),
                cool_down_if_needed(t, "main") \o RunEvent("main", fate))

\* TaskExecutor._check_single_condition
TaskExecutor_check_single_condition(condition, t, pr) == check_condition(condition, t, pr)

\* TaskExecutor._check_completion_conditions, lines 92-97: when the verdict
\* is false every condition is evaluated once more for display, and that
\* evaluation can raise too
display_conditions(t, probes) ==
    IF \E i \in DOMAIN t.completion_conditions :
           TaskExecutor_check_single_condition(t.completion_conditions[i], t, probes[i]).raised
    THEN Raise
    ELSE Return(FALSE)

\* TaskExecutor._check_completion_conditions, given check_all_conditions(task)
report_conditions(t, probes, all_conditions_met) ==
    IF all_conditions_met.raised THEN Raise
    ELSE IF all_conditions_met.value THEN Return(TRUE)
    ELSE display_conditions(t, probes)

\* TaskExecutor._check_completion_conditions
TaskExecutor_check_completion_conditions(t, probes) ==
    report_conditions(t, probes, check_all_conditions(t, probes))

\* the history entry of an all-conditions verdict
Checked(who, c) ==
    <<Ev(who, IF c.raised THEN "check_raise"
              ELSE IF c.value THEN "check_true" ELSE "check_false")>>

\* after_attempt with the `return True` of line 59 missing: the loop goes on
\* to the tests of `success`
after_attempt_no_return(e, c, att, maxa) ==
    IF c.raised
    THEN [task |-> e.task, pc |-> "raised", ret |-> None, attempt |-> att,
          events |-> e.events \o Checked("main", c)]
    ELSE IF e.success
    THEN [task |-> e.task, pc |-> "loop", ret |-> None, attempt |-> att + 1,
          events |-> e.events \o Checked("main", c) \o
                     (IF att < maxa THEN sleep("main", 10) ELSE <<>>)]
    ELSE [task |-> e.task, pc |-> "loop", ret |-> None, attempt |-> att + 1,
          events |-> e.events \o Checked("main", c) \o
                     (IF att < maxa
                      THEN IF should_apply_cool_down(e.task)
                           THEN apply_cool_down("main")
                           ELSE sleep("main", 30)
                      ELSE <<>>)]

\* execute_task_until_completion, lines 57-76: what the loop does with the
\* attempt e and the verdict c of iteration att
\* [task, pc: where the loop is next, ret, attempt, history entries]
after_attempt(e, c, att, maxa) ==
    IF c.raised
    THEN [task |-> e.task, pc |-> "raised", ret |-> None, attempt |-> att,
          events |-> e.events \o Checked("main", c)]
    ELSE IF c.value
    THEN [task |-> e.task, pc |-> "done", ret |-> Some(TRUE), attempt |-> att,
          events |-> e.events \o Checked("main", c)]
    ELSE IF e.success
    THEN [task |-> e.task, pc |-> "loop", ret |-> None, attempt |-> att + 1,
          events |-> e.events \o Checked("main", c) \o
                     (IF att < maxa THEN sleep("main", 10) ELSE <<>>)]
    ELSE [task |-> e.task, pc |-> "loop", ret |-> None, attempt |-> att + 1,
          events |-> e.events \o Checked("main", c) \o
                     (IF att < maxa
                      THEN IF should_apply_cool_down(e.task)
                           THEN apply_cool_down("main")
                           ELSE sleep("main", 30)
                      ELSE <<>>)]

\* execute_task_until_completion, lines 54-57: the completion check after
\* the attempt e
check_after_attempt(e, att, maxa, probes) ==
    after_attempt(e, TaskExecutor_check_completion_conditions(e.task, probes), att, maxa)

\* one iteration of the for loop of execute_task_until_completion
execute_task_until_completion_iteration(t, att, maxa, fate, probes) ==
    check_after_attempt(execute_task(t, fate), att, maxa, probes)

\* execute_task_until_completion is called: max_attempts = task.max_retries
Call ==
    /\ pc = "idle"
    /\ pc' = "loop"
    /\ max_attempts' = task.max_retries
    /\ attempt' = 1
    /\ UNCHANGED <<ret, trace, task, nltask, subrun, evalVars, pureVars, batchVars>>

\* Attempt with the loop written range(1, max_attempts + 2)
AttemptOffByOne ==
    /\ pc = "loop"
    /\ attempt <= max_attempts + 1
    /\ \E fate \in Fates, probes \in [DOMAIN task.completion_conditions -> BOOLEAN] :
          LET r == execute_task_until_completion_iteration(task, attempt, max_attempts, fate, probes)
          IN /\ task' = r.task
             /\ pc' = r.pc
             /\ ret' = r.ret
             /\ attempt' = r.attempt
             /\ trace' = trace \o r.events
    /\ UNCHANGED <<max_attempts, nltask, subrun, evalVars, pureVars, batchVars>>

\* Attempt with the loop written as a do-while: the first iteration is run
\* whatever max_attempts is
AttemptAtLeastOnce ==
    /\ pc = "loop"
    /\ (attempt <= max_attempts \/ attempt = 1)
    /\ \E fate \in Fates, probes \in [DOMAIN task.completion_conditions -> BOOLEAN] :
          LET r == execute_task_until_completion_iteration(task, attempt, max_attempts, fate, probes)
          IN /\ task' = r.task
             /\ pc' = r.pc
             /\ ret' = r.ret
             /\ attempt' = r.attempt
             /\ trace' = trace \o r.events
    /\ UNCHANGED <<max_attempts, nltask, subrun, evalVars, pureVars, batchVars>>

\* for attempt in range(1, max_attempts + 1): one iteration
Attempt ==
    /\ pc = "loop"
    /\ attempt <= max_attempts
    /\ \E fate \in Fates, probes \in [DOMAIN task.completion_conditions -> BOOLEAN] :
          LET r == execute_task_until_completion_iteration(task, attempt, max_attempts, fate, probes)
          IN /\ task' = r.task
             /\ pc' = r.pc
             /\ ret' = r.ret
             /\ attempt' = r.attempt
             /\ trace' = trace \o r.events
    /\ UNCHANGED <<max_attempts, nltask, subrun, evalVars, pureVars, batchVars>>

\* the loop is over: return False
Exhausted ==
    /\ pc = "loop"
    /\ attempt > max_attempts
    /\ pc' = "done"
    /\ ret' = Some(FALSE)
    /\ UNCHANGED <<attempt, max_attempts, trace, task, nltask, subrun, evalVars, pureVars, batchVars>>

----------------------------------------------------------------------------
(* natural_language_executor.py: NaturalLanguageTaskExecutor *)

\* _generate_initial_command
NL_generate_initial_command(t, reply) ==
    generate_command_from_description(t.description, t.timeout, reply)

\* Python's `if task.generated_command:` for an Optional[str]
Truthy(o) == ~Falsy(o)

\* _generate_initial_conditions: [conditions, history entries]
NL_generate_initial_conditions(t, who, reply) ==
    IF Truthy(t.generated_command)
    THEN [conditions |-> generate_completion_conditions(
                             t.description, Val(t.generated_command), t.timeout, reply),
          events |-> <<Ev(who, "synth_cond")>>]
    ELSE [conditions |-> DefaultConditions, events |-> <<>>]

\* execute_natural_language_task, lines 41-65: cool down, run the command
\* and save the result
NL_run_command(t, who, events, fate) ==
    save_result(t, execute_command(Val(t.generated_command), t.timeout, fate),
                events \o cool_down_if_needed(t, who) \o RunEvent(who, fate))

\* execute_natural_language_task, line 35: the generated conditions ic
\* are stored
NL_store_conditions(t, who, events, ic, fate) ==
    NL_run_command([t EXCEPT !.generated_conditions = Some(ic.conditions)],
                   who, events \o ic.events, fate)

\* NL_with_conditions asking for the conditions at every attempt
NL_with_conditions_eager(t, who, events, condreply, fate) ==
    NL_store_conditions(t, who, events,
                        NL_generate_initial_conditions(t, who, condreply), fate)

\* execute_natural_language_task, lines 31-39: lazy synthesis of the
\* conditions
NL_with_conditions(t, who, events, condreply, fate) ==
    IF t.generated_conditions = None
    THEN NL_store_conditions(t, who, events,
                             NL_generate_initial_conditions(t, who, condreply), fate)
    ELSE NL_run_command(t, who, events, fate)

\* execute_natural_language_task, lines 23-29: the outcome g of the command
\* request is stored, or the attempt is given up
NL_store_command(t, who, g, condreply, fate) ==
    IF g.raised
    THEN [task |-> [t EXCEPT !.last_error = Some(g.error)],
          success |-> FALSE,
          events |-> <<Ev(who, "synth_cmd"), Ev(who, "synth_cmd_failed")>>]
    ELSE NL_with_conditions([t EXCEPT !.generated_command = Some(g.value)],
                            who, <<Ev(who, "synth_cmd")>>, condreply, fate)

\* execute_natural_language_task: one attempt of a natural-language task
\* (the main task or a sub-task)
\* [task after the attempt, the returned success flag, history entries]
execute_natural_language_task(t, who, synth, condreply, fate) ==
    IF t.generated_command = None
    THEN NL_store_command(t, who, NL_generate_initial_command(t, synth), condreply, fate)
    ELSE NL_with_conditions(t, who, <<>>, condreply, fate)

\* NaturalLanguageTaskExecutor._check_single_condition
NL_check_single_condition(condition, t, pr) == check_condition(condition, t, pr)

\* if not condition_met: all_conditions_met = False
both_met(condition_met, rest) ==
    IF condition_met.raised \/ rest.raised THEN Raise
    ELSE Return(condition_met.value /\ rest.value)

\* for i, condition in enumerate(conditions[i..]): every condition is
\* evaluated; the verdict is the conjunction
RECURSIVE NL_check_from(_, _, _, _)
NL_check_from(conditions, t, probes, i) ==
    IF i > Len(conditions) THEN Return(TRUE)
    ELSE both_met(NL_check_single_condition(conditions[i], t, probes[i]),
                  NL_check_from(conditions, t, probes, i + 1))

\* NaturalLanguageTaskExecutor._check_completion_conditions
NL_check_completion_conditions(t, probes) ==
    IF t.generated_conditions = None \/ Val(t.generated_conditions) = <<>>
    THEN Return(FALSE)
    ELSE NL_check_from(Val(t.generated_conditions), t, probes, 1)

\* the probes the all-conditions check after an attempt of t makes: one for
\* each condition t has, or will have been given by then
ProbesOf(t) ==
    IF t.generated_conditions = None THEN [DOMAIN DefaultConditions -> BOOLEAN]
    ELSE [DOMAIN Val(t.generated_conditions) -> BOOLEAN]

\* _create_improvement_subtask
NL_create_improvement_subtask(main_task, improvement_description, reply) ==
    create_subtask_for_improvement(main_task, improvement_description,
                                   main_task.timeout, reply)

\* what one run of a sub-task needs from outside: the replies to its lazy
\* synthesis requests and the fate of its command
SubChoice(synth, condreply, fate) == [synth |-> synth, condreply |-> condreply, fate |-> fate]

\* history: the sub-task after the run r, the flag it counted with, and how
\* often its command was run
SubRun(r) ==
    Some([task |-> r.task, success |-> r.success,
          runs |-> Cardinality({i \in DOMAIN r.events : r.events[i].op \in RunOps})])

\* the runs of sub-task i (r) and of the later ones (rest), together
NL_join_runs(r, rest) ==
    [subtasks |-> rest.subtasks, ok |-> rest.ok,
     events |-> r.events \o rest.events,
     last |-> IF rest.last = None THEN SubRun(r) ELSE rest.last]

\* _execute_improvement_subtasks, lines 162-168:
\* for subtask in subtasks[i..]: run it once; return False at the first that
\* fails.  [subtasks after the runs, all succeeded, history entries, the
\* last one run]
RECURSIVE NL_run_subtasks(_, _, _)
RECURSIVE NL_after_subtask(_, _, _, _)
NL_after_subtask(subtasks, choices, i, r) ==
    IF ~r.success
    THEN [subtasks |-> [subtasks EXCEPT ![i] = r.task], ok |-> FALSE,
          events |-> r.events, last |-> SubRun(r)]
    ELSE NL_join_runs(r, NL_run_subtasks([subtasks EXCEPT ![i] = r.task], choices, i + 1))

NL_run_subtasks(subtasks, choices, i) ==
    IF i > Len(subtasks)
    THEN [subtasks |-> subtasks, ok |-> TRUE, events |-> <<>>, last |-> None]
    ELSE NL_after_subtask(subtasks, choices, i,
             execute_natural_language_task(subtasks[i], "sub", choices[i].synth,
                                           choices[i].condreply, choices[i].fate))

\* `if not task.subtasks`
NoSubtasks(t) == t.subtasks = None \/ Val(t.subtasks) = <<>>

\* NL_owned_subtasks creating one more sub-task at every call
NL_owned_subtasks_append(t, subreply) ==
    IF NoSubtasks(t)
    THEN <<NL_create_improvement_subtask(t, "improve", subreply)>>
    ELSE Append(Val(t.subtasks), NL_create_improvement_subtask(t, "improve", subreply))

\* _execute_improvement_subtasks, lines 156-160: the owned sub-tasks, after
\* the one to create when there is none
NL_owned_subtasks(t, subreply) ==
    IF NoSubtasks(t)
    THEN <<NL_create_improvement_subtask(t, "improve", subreply)>>
    ELSE Val(t.subtasks)

\* NL_improvement_outcome charging the sub-task runs to the main task
NL_improvement_outcome_charged(t, events, r) ==
    [task |-> [t EXCEPT !.subtasks = Some(r.subtasks),
                        !.retry_count = @ + (IF r.last = None THEN 0 ELSE 1)],
     ok |-> r.ok, events |-> events \o r.events, last |-> r.last]

\* _execute_improvement_subtasks, given the runs r of the sub-tasks
NL_improvement_outcome(t, events, r) ==
    [task |-> [t EXCEPT !.subtasks = Some(r.subtasks)],
     ok |-> r.ok, events |-> events \o r.events, last |-> r.last]

\* _execute_improvement_subtasks:
\* [task after, the returned flag, history entries, the last sub-task run]
NL_execute_improvement_subtasks(t, subreply, choices) ==
    NL_improvement_outcome(
        t, IF NoSubtasks(t) THEN <<Ev("main", "subtask_request")>> ELSE <<>>,
        NL_run_subtasks(NL_owned_subtasks(t, subreply), choices, 1))

\* _analyze_and_improve, lines 184-189: the repair sub-task
NL_repair_subtask(t, improved_command, subreply) ==
    [create_subtask_for_improvement(t, "repair", t.timeout, subreply)
        EXCEPT !.generated_command = Some(improved_command)]

\* history: the analysis returned improved_command (the empty str when the
\* assistant's output had no text), and the repair sub-task is requested
NL_analysis_events(improved_command) ==
    <<Ev("main", "analysis"),
      Ev("main", IF improved_command = EmptyStr THEN "analysis_empty" ELSE "analysis_command"),
      Ev("main", "subtask_request")>>

\* NL_after_repair applying the improved command whatever the sub-task did
NL_after_repair_always(t, improved_command, r) ==
    [task |-> [t EXCEPT !.generated_command = Some(improved_command)],
     ok |-> r.success,
     events |-> NL_analysis_events(improved_command) \o r.events,
     last |-> SubRun(r)]

\* NL_after_repair keeping the repair sub-task among the task's sub-tasks
NL_after_repair_owning(t, improved_command, r) ==
    [task |-> [(IF r.success THEN [t EXCEPT !.generated_command = Some(improved_command)]
                ELSE t)
               EXCEPT !.subtasks = Some((IF t.subtasks = None THEN <<>> ELSE Val(t.subtasks))
                                        \o <<r.task>>)],
     ok |-> r.success,
     events |-> NL_analysis_events(improved_command) \o r.events,
     last |-> SubRun(r)]

\* _analyze_and_improve, lines 191-198: the repair sub-task was run (r)
NL_after_repair(t, improved_command, r) ==
    [task |-> IF r.success THEN [t EXCEPT !.generated_command = Some(improved_command)]
              ELSE t,
     ok |-> r.success,
     events |-> NL_analysis_events(improved_command) \o r.events,
     last |-> SubRun(r)]

\* _analyze_and_improve, given the outcome a of the failure analysis
NL_after_analysis(t, a, subreply, ch) ==
    IF a.raised
    THEN [task |-> t, ok |-> FALSE,
          events |-> <<Ev("main", "analysis"), Ev("main", "analysis_failed")>>,
          last |-> None]
    ELSE NL_after_repair(t, a.value,
             execute_natural_language_task(NL_repair_subtask(t, a.value, subreply),
                                           "sub", ch.synth, ch.condreply, ch.fate))

\* _analyze_and_improve:
\* [task after, the returned flag, history entries, the sub-task run if any]
NL_analyze_and_improve(t, areply, subreply, ch) ==
    NL_after_analysis(t, analyze_failure_and_improve(t, t.timeout, areply), subreply, ch)

\* the tail of an iteration when no `continue` was taken:
\* if attempt < max_attempts: cool down or sleep(30)
NL_wait(t, att, maxa) ==
    IF att < maxa
    THEN IF should_apply_cool_down(t) THEN apply_cool_down("main") ELSE sleep("main", 30)
    ELSE <<>>

\* NL_after_attempt returning True only when the command succeeded too
NL_after_attempt_needing_success(e, c) ==
    [task |-> e.task,
     events |-> e.events \o Checked("main", c),
     pc |-> IF c.raised THEN "raised"
            ELSE IF c.value /\ e.success THEN "done"
            ELSE IF e.success THEN "improve" ELSE "analyze",
     returned |-> ~c.raised /\ c.value /\ e.success]

\* lines 74-80 and the tests of `success`: where the loop goes after the
\* attempt e with the verdict c
NL_after_attempt(e, c) ==
    [task |-> e.task,
     events |-> e.events \o Checked("main", c),
     pc |-> IF c.raised THEN "raised"
            ELSE IF c.value THEN "done"
            ELSE IF e.success THEN "improve" ELSE "analyze",
     returned |-> ~c.raised /\ c.value]

\* lines 74-77: the attempt and its completion check
NL_attempt(t, synth, condreply, fate, probes) ==
    NL_after_attempt(execute_natural_language_task(t, "main", synth, condreply, fate),
                     NL_check_completion_conditions(
                         execute_natural_language_task(t, "main", synth, condreply, fate).task,
                         probes))

\* lines 88-111: after the corrective branch r of iteration att:
\* `sleep(5); continue` when it returned True, else the wait of the tail
NL_after_branch(r, att, maxa) ==
    r.events \o (IF r.ok THEN sleep("main", 5) ELSE NL_wait(r.task, att, maxa))

\* what the assistant and the commands can do in a run of the
\* natural-language loop
SynthReplies == {ReplyLine(<<"g">>), ReplyNonZero, ReplyTimeout}
\* the analysis: a repaired command, no text at all, a non-zero exit, a
\* timeout
AnalysisReplies == {ReplyLine(<<"r">>), ReplyLine(EmptyStr), ReplyNonZero, ReplyTimeout}
SubtaskReplies == {SubtaskReply("failed", None, None),
                   SubtaskReply("object", None, None),
                   SubtaskReply("object", Some(None), Some(None))}
SubFates == {Exit(0, SuccessPattern, EmptyStr), Exit(0, EmptyStr, EmptyStr),
             Exit(1, EmptyStr, <<"e">>)}
\* the main task's command: it exits, with or without the "done" pattern in
\* its output (the runner's handling of timeouts and faults is exercised by
\* the plain loop)
NLFates == {Exit(0, EmptyStr, EmptyStr), Exit(0, DonePattern, EmptyStr),
            Exit(1, EmptyStr, EmptyStr), Exit(1, DonePattern, <<"e">>)}

\* the replies an attempt of t can consume: a request is only made while the
\* value is missing
SynthChoices(t) == IF t.generated_command = None THEN SynthReplies ELSE {ReplyNonZero}
CondChoices(t) == IF t.generated_conditions = None THEN JsonReplyKinds ELSE {"failed"}
SubtaskReplyChoices(t) ==
    IF NoSubtasks(t) THEN SubtaskReplies ELSE {SubtaskReply("failed", None, None)}
SubChoicesFor(st) ==
    {SubChoice(sy, cr, f) : sy \in SynthChoices(st), cr \in CondChoices(st), f \in SubFates}
SubChoiceSeqs(subtasks) ==
    {choices \in [DOMAIN subtasks ->
                     {SubChoice(sy, cr, f) : sy \in SynthReplies \cup {ReplyNonZero},
                                             cr \in JsonReplyKinds, f \in SubFates}] :
        \A i \in DOMAIN subtasks : choices[i] \in SubChoicesFor(subtasks[i])}

\* execute_natural_language_task_until_completion is called
NLCall ==
    /\ pc = "idle"
    /\ pc' = "loop"
    /\ max_attempts' = nltask.max_retries
    /\ attempt' = 1
    /\ UNCHANGED <<ret, trace, task, nltask, subrun, evalVars, pureVars, batchVars>>

\* an iteration, up to the completion check: the attempt and its verdict
NLExecute ==
    /\ pc = "loop"
    /\ attempt <= max_attempts
    /\ \E synth \in SynthChoices(nltask), cr \in CondChoices(nltask), fate \in NLFates :
       \E probes \in ProbesOf(nltask) :
          LET r == NL_attempt(nltask, synth, cr, fate, probes) IN
          /\ nltask' = r.task
          /\ trace' = trace \o r.events
          /\ pc' = r.pc
          /\ ret' = IF r.returned THEN Some(TRUE) ELSE ret
    /\ UNCHANGED <<attempt, max_attempts, task, subrun, evalVars, pureVars, batchVars>>

\* an iteration after a successful attempt that did not complete
NLImprove ==
    /\ pc = "improve"
    /\ \E subreply \in SubtaskReplyChoices(nltask) :
       \E choices \in SubChoiceSeqs(NL_owned_subtasks(nltask, subreply)) :
          LET r == NL_execute_improvement_subtasks(nltask, subreply, choices) IN
          /\ nltask' = r.task
          /\ subrun' = r.last
          /\ trace' = trace \o NL_after_branch(r, attempt, max_attempts)
    /\ attempt' = attempt + 1
    /\ pc' = "loop"
    /\ UNCHANGED <<max_attempts, ret, task, evalVars, pureVars, batchVars>>

\* an iteration after a failed attempt
NLAnalyze ==
    /\ pc = "analyze"
    /\ \E areply \in AnalysisReplies :
       \E subreply \in (IF areply.kind = "line" THEN SubtaskReplies
                        ELSE {SubtaskReply("failed", None, None)}) :
       \E ch \in (IF areply.kind = "line"
                  THEN SubChoicesFor(NL_repair_subtask(nltask, areply.line, subreply))
                  ELSE {SubChoice(ReplyNonZero, "failed", Fault)}) :
          LET r == NL_analyze_and_improve(nltask, areply, subreply, ch) IN
          /\ nltask' = r.task
          /\ subrun' = IF r.last = None THEN subrun ELSE r.last
          /\ trace' = trace \o NL_after_branch(r, attempt, max_attempts)
    /\ attempt' = attempt + 1
    /\ pc' = "loop"
    /\ UNCHANGED <<max_attempts, ret, task, evalVars, pureVars, batchVars>>

\* the loop is over: return False
NLExhausted ==
    /\ pc = "loop"
    /\ attempt > max_attempts
    /\ pc' = "done"
    /\ ret' = Some(FALSE)
    /\ UNCHANGED <<attempt, max_attempts, trace, task, nltask, subrun, evalVars, pureVars, batchVars>>

----------------------------------------------------------------------------
(* condition_checker.py: ConditionChecker *)

KnownKinds == {"file_exists", "output_contains", "output_not_contains", "file_contains",
               "website_exists", "test_command", "claude_code_confirmation"}

\* last_output or ""
OrEmpty(o) == IF o = None THEN EmptyStr ELSE Val(o)

\* a record of condition_history (the timestamp and the diagnostic keyword
\* arguments are not modelled)
LogEntry(condition_type, identifier, result) ==
    [type |-> condition_type, identifier |-> identifier, result |-> result]

\* a _check_* method returned `result` after _log_condition_check
Logged(condition_type, identifier, result) ==
    [raised |-> FALSE, value |-> result,
     log |-> Some(LogEntry(condition_type, identifier, result))]
CheckerRaise == [raised |-> TRUE, value |-> FALSE, log |-> None]

\* ConditionChecker._check_single_condition: [raised, value, log]
ConditionChecker_check_single_condition(condition, t, pr) ==
    LET condition_type == condition.type IN
    IF condition_type = Some("file_exists")
    THEN IF condition.path = None THEN CheckerRaise
         ELSE Logged("file_exists", Val(condition.path), pr)
    ELSE IF condition_type = Some("output_contains")
    THEN IF condition.pattern = None THEN CheckerRaise
         ELSE Logged("output_contains", Val(condition.pattern),
                     Contains(OrEmpty(t.last_output), Val(condition.pattern)))
    ELSE IF condition_type = Some("output_not_contains")
    THEN IF condition.pattern = None THEN CheckerRaise
         ELSE Logged("output_not_contains", Val(condition.pattern),
                     ~Contains(OrEmpty(t.last_output), Val(condition.pattern)))
    ELSE IF condition_type = Some("file_contains")
    THEN IF condition.path = None \/ condition.pattern = None THEN CheckerRaise
         ELSE Logged("file_contains", Val(condition.path) \o <<":">> \o Val(condition.pattern), pr)
    ELSE IF condition_type = Some("website_exists")
    THEN IF condition.url = None THEN CheckerRaise
         ELSE Logged("website_exists", Val(condition.url), pr)
    ELSE IF condition_type = Some("test_command")
    THEN IF condition.command = None THEN CheckerRaise
         ELSE Logged("test_command", Val(condition.command), pr)
    ELSE IF condition_type = Some("claude_code_confirmation")
    THEN IF condition.prompt = None THEN CheckerRaise
         ELSE Logged("claude_code_confirmation", Val(condition.prompt), pr)
    ELSE [raised |-> FALSE, value |-> FALSE, log |-> None]

\* _log_condition_check: append the record to the list of its kind
log_condition_check(history, entry) ==
    [history EXCEPT ![entry.type] = Append(history[entry.type], entry)]

\* number of records in a condition_history
HistorySize(history) ==
    Cardinality({<<k, i>> \in KnownKinds \X (1..MaxEvals) : i <= Len(history[k])})

----------------------------------------------------------------------------
(* The evaluators, called on one condition and one task state *)

RECURSIVE StrsOfLen(_)
StrsOfLen(n) ==
    IF n = 0 THEN {<<>>}
    ELSE {Append(x, ch) : x \in StrsOfLen(n - 1), ch \in {"a", "d"}}

\* every str of at most MaxStrLen characters
Strs == UNION {StrsOfLen(n) : n \in 0..MaxStrLen}

OptStrs == {None} \cup {Some(x) : x \in Strs}
OptNames(x) == {None, Some(EmptyStr), Some(x)}

\* condition records of every kind, with and without their parameters
Conditions ==
    {OutputContains(p) : p \in OptStrs} \cup
    {OutputNotContains(p) : p \in OptStrs} \cup
    {FileExists(p) : p \in {None, Some(<<"p">>)}} \cup
    {FileContains(p, q) : p \in {None, Some(<<"p">>)}, q \in {None, Some(<<"d">>)}} \cup
    {WebsiteExists(u) : u \in OptNames(<<"u">>)} \cup
    {TestCommand(c) : c \in OptNames(<<"c">>)} \cup
    {ClaudeCodeConfirmation(q) : q \in OptNames(<<"q">>)} \cup
    {UnknownKind, NoKind}

\* utils.check_condition(cond, ctask)
CheckCondition ==
    /\ verdict' = Some(check_condition(cond, ctask, probe))
    /\ UNCHANGED <<loopVars, task, nltask, subrun, cond, ctask, probe, cverdict,
                   condition_history, pureVars, batchVars>>

\* a _check_single_condition that answers from condition_history: once a
\* record is held, the verdict is the negation of the evaluation
CheckSingleConditionFromHistory ==
    /\ HistorySize(condition_history) < MaxEvals
    /\ LET r == ConditionChecker_check_single_condition(cond, ctask, probe) IN
       /\ cverdict' = Some([raised |-> r.raised,
                            value |-> IF HistorySize(condition_history) = 0
                                      THEN r.value ELSE ~r.value])
       /\ condition_history' =
             IF r.log = None THEN condition_history
             ELSE log_condition_check(condition_history, Val(r.log))
    /\ UNCHANGED <<loopVars, task, nltask, subrun, cond, ctask, probe, verdict,
                   pureVars, batchVars>>

\* ConditionChecker._check_single_condition(cond, ctask)
CheckSingleCondition ==
    /\ HistorySize(condition_history) < MaxEvals
    /\ LET r == ConditionChecker_check_single_condition(cond, ctask, probe) IN
       /\ cverdict' = Some([raised |-> r.raised, value |-> r.value])
       /\ condition_history' =
             IF r.log = None THEN condition_history
             ELSE log_condition_check(condition_history, Val(r.log))
    /\ UNCHANGED <<loopVars, task, nltask, subrun, cond, ctask, probe, verdict,
                   pureVars, batchVars>>

----------------------------------------------------------------------------
(* The specifications *)

IdleTask == Task("t", <<"c">>, <<>>, 0, DefaultTimeout)
IdleNLTask == NaturalLanguageTask("n", "desc", 0, DefaultTimeout)
EmptyHistory == [k \in KnownKinds |-> <<>>]

LoopInit ==
    /\ pc = "idle"
    /\ attempt = 0
    /\ max_attempts = 0
    /\ ret = None
    /\ trace = <<>>
    /\ subrun = None

EvalIdle ==
    /\ cond = NoKind
    /\ ctask = IdleTask
    /\ probe = FALSE
    /\ verdict = None
    /\ cverdict = None
    /\ condition_history = EmptyHistory

\* no pure function has been tried, no collection is being executed
NoResults == [id \in {} |-> FALSE]
PureIdle ==
    /\ cool_down = None
    /\ all_verdicts = None
    /\ outcome = None
    /\ seconds = CoolDownSeconds
    /\ remaining = 0
    /\ slept = 0
BatchIdle ==
    /\ tasks = <<>>
    /\ results = NoResults
    /\ current = 0

\* TaskExecutor.execute_task_until_completion on a loaded task
Init ==
    /\ LoopInit
    /\ task \in Tasks
    /\ nltask = IdleNLTask
    /\ EvalIdle
    /\ PureIdle
    /\ BatchIdle

Next == Call \/ Attempt \/ Exhausted

Spec == Init /\ [][Next]_vars

\* every call in an iteration terminates, so a loop that can take a step
\* takes one
LiveSpec == Spec /\ WF_vars(Next)

\* the tasks cli.run_natural_language_task constructs
NLTasks == {NaturalLanguageTask("n", "desc", mr, DefaultTimeout) : mr \in 0..MaxRetries}

\* NaturalLanguageTaskExecutor.execute_natural_language_task_until_completion
NLInit ==
    /\ LoopInit
    /\ task = IdleTask
    /\ nltask \in NLTasks
    /\ EvalIdle
    /\ PureIdle
    /\ BatchIdle

NLNext == NLCall \/ NLExecute \/ NLImprove \/ NLAnalyze \/ NLExhausted

NLSpec == NLInit /\ [][NLNext]_vars

NLLiveSpec == NLSpec /\ WF_vars(NLNext)

\* the two condition evaluators on any condition record and task state
EvalInit ==
    /\ LoopInit
    /\ task = IdleTask
    /\ nltask = IdleNLTask
    /\ cond \in Conditions
    /\ ctask \in {[IdleTask EXCEPT !.last_output = o] : o \in OptStrs}
    /\ probe \in BOOLEAN
    /\ verdict = None
    /\ cverdict = None
    /\ condition_history = EmptyHistory
    /\ PureIdle
    /\ BatchIdle

EvalNext == CheckCondition \/ CheckSingleCondition

EvalSpec == EvalInit /\ [][EvalNext]_vars


----------------------------------------------------------------------------
(* The backoff controller, called on one task state after another *)

\* task states of every attempt count, with and without a recorded error
CoolDownTasks ==
    {[IdleTask EXCEPT !.max_retries = MaxRetries, !.retry_count = n,
                      !.last_error = e, !.last_output = o] :
        n \in 0..MaxRetries, e \in OptStrs, o \in {None, Some(EmptyStr)}}

\* the error the task held at the call before the latest one, if there was one
EarlierError == IF cool_down = None THEN None ELSE Some(Val(cool_down).before.last_error)

\* should_apply_cool_down(ctask): the verdict, the task as it was at the
\* call and as the call left it (the function assigns nothing), and the
\* error the task held at the call before
ShouldApplyCoolDown ==
    /\ ctask' = ctask
    /\ cool_down' = Some([value |-> should_apply_cool_down(ctask),
                          before |-> ctask,
                          after |-> ctask',
                          earlier |-> EarlierError])
    /\ UNCHANGED <<loopVars, task, nltask, subrun, cond, probe, verdict, cverdict,
                   condition_history, all_verdicts, outcome, coolVars, batchVars>>

\* TaskExecutor.execute_task(ctask): one more attempt is saved in the task
ExecuteTask ==
    /\ ctask.retry_count < ctask.max_retries
    /\ \E fate \in Fates : ctask' = execute_task(ctask, fate).task
    /\ UNCHANGED <<loopVars, task, nltask, subrun, cond, probe, verdict, cverdict,
                   condition_history, pureVars, batchVars>>

CoolDownInit ==
    /\ LoopInit
    /\ task = IdleTask
    /\ nltask = IdleNLTask
    /\ cond = NoKind
    /\ ctask \in CoolDownTasks
    /\ probe = FALSE
    /\ verdict = None
    /\ cverdict = None
    /\ condition_history = EmptyHistory
    /\ PureIdle
    /\ BatchIdle

CoolDownNext == ShouldApplyCoolDown \/ ExecuteTask

CoolDownSpec == CoolDownInit /\ [][CoolDownNext]_vars

----------------------------------------------------------------------------
(* The command runner, called on any command, timeout and process fate *)

\* what subprocess.run can meet: any return code (negative when a signal
\* ended the child) with any captured streams, the timeout, a fault
ReturnCodes == {0, 1, -9}
RunnerFates ==
    {Exit(rc, out, err) : rc \in ReturnCodes, out \in Strs, err \in {EmptyStr, <<"e">>}}
        \cup {TimeoutExpired, Fault}

\* the tasks whose command is run: a main task and a corrective sub-task,
\* which differ in their timeout
RunnerTasks ==
    {[IdleTask EXCEPT !.command = c, !.timeout = t] :
        c \in {<<"c">>, EmptyStr}, t \in {DefaultTimeout, SubtaskTimeout}}

\* execute_command(ctask.command, ctask.timeout)
ExecuteCommand ==
    /\ \E fate \in RunnerFates :
          outcome' = Some([command |-> ctask.command, timeout |-> ctask.timeout,
                           fate |-> fate,
                           result |-> execute_command(ctask.command, ctask.timeout, fate)])
    /\ UNCHANGED <<loopVars, task, nltask, subrun, evalVars, cool_down, all_verdicts, coolVars,
                   batchVars>>

RunnerInit ==
    /\ LoopInit
    /\ task = IdleTask
    /\ nltask = IdleNLTask
    /\ cond = NoKind
    /\ ctask \in RunnerTasks
    /\ probe = FALSE
    /\ verdict = None
    /\ cverdict = None
    /\ condition_history = EmptyHistory
    /\ PureIdle
    /\ BatchIdle

RunnerNext == ExecuteCommand

RunnerSpec == RunnerInit /\ [][RunnerNext]_vars

----------------------------------------------------------------------------
(* utils.py: apply_cool_down, one step per time.sleep(1) *)

\* apply_cool_down with the loop written range(seconds - 1, 0, -1)
ApplyCoolDownCallShort ==
    /\ pc = "idle"
    /\ pc' = "cooling"
    /\ remaining' = seconds - 1
    /\ slept' = 0
    /\ UNCHANGED <<attempt, max_attempts, ret, trace, task, nltask, subrun, evalVars,
                   cool_down, all_verdicts, outcome, seconds, batchVars>>

\* apply_cool_down(seconds) is called: range(seconds, 0, -1) starts at seconds
ApplyCoolDownCall ==
    /\ pc = "idle"
    /\ pc' = "cooling"
    /\ remaining' = seconds
    /\ slept' = 0
    /\ UNCHANGED <<attempt, max_attempts, ret, trace, task, nltask, subrun, evalVars,
                   cool_down, all_verdicts, outcome, seconds, batchVars>>

\* one iteration: time.sleep(1), then the next value of the range
ApplyCoolDownSleep ==
    /\ pc = "cooling"
    /\ remaining > 0
    /\ slept' = slept + 1
    /\ remaining' = remaining - 1
    /\ UNCHANGED <<loopVars, task, nltask, subrun, evalVars,
                   cool_down, all_verdicts, outcome, seconds, batchVars>>

\* the range is exhausted: apply_cool_down returns
ApplyCoolDownReturn ==
    /\ pc = "cooling"
    /\ remaining <= 0
    /\ pc' = "returned"
    /\ UNCHANGED <<attempt, max_attempts, ret, trace, task, nltask, subrun, evalVars,
                   pureVars, batchVars>>

\* any int can be passed; the default is 60
SleepInit ==
    /\ LoopInit
    /\ task = IdleTask
    /\ nltask = IdleNLTask
    /\ EvalIdle
    /\ cool_down = None
    /\ all_verdicts = None
    /\ outcome = None
    /\ seconds \in (-1)..CoolDownSeconds
    /\ remaining = 0
    /\ slept = 0
    /\ BatchIdle

SleepNext == ApplyCoolDownCall \/ ApplyCoolDownSleep \/ ApplyCoolDownReturn

SleepSpec == SleepInit /\ [][SleepNext]_vars

----------------------------------------------------------------------------
(* The all-conditions checks, called on the orderings of one sequence *)

\* the orderings of a sequence of n conditions
Orderings(n) == {q \in [1..n -> 1..n] : \A i, j \in 1..n : q[i] = q[j] => i = j}

\* the sequence `conditions` in the order q
Reordered(conditions, q) == [i \in DOMAIN conditions |-> conditions[q[i]]]

\* a fixed environment answers the probe of a condition the same way
\* wherever the condition stands in the sequence
EnvsOf(conditions) == [{conditions[i] : i \in DOMAIN conditions} -> BOOLEAN]
ProbesIn(conditions, env) == [i \in DOMAIN conditions |-> env[conditions[i]]]

\* a natural-language task with the conditions and the output of the plain
\* task t
AsNLTask(t) ==
    [IdleNLTask EXCEPT !.generated_conditions = Some(t.completion_conditions),
                       !.last_output = t.last_output]

\* check_all_conditions and _check_completion_conditions on the task t with
\* its conditions in the order q
VerdictsIn(t, q, env) ==
    [plain |-> check_all_conditions(
                   [t EXCEPT !.completion_conditions = Reordered(@, q)],
                   ProbesIn(Reordered(t.completion_conditions, q), env)),
     nl |-> NL_check_completion_conditions(
                AsNLTask([t EXCEPT !.completion_conditions = Reordered(@, q)]),
                ProbesIn(Reordered(t.completion_conditions, q), env))]

\* the conditions check_all_conditions evaluates: conditions[i..] up to the
\* first that is not satisfied or raises
RECURSIVE check_all_evaluated(_, _, _, _)
check_all_evaluated(conditions, t, probes, i) ==
    IF i > Len(conditions) THEN {}
    ELSE IF check_condition(conditions[i], t, probes[i]).raised
            \/ ~check_condition(conditions[i], t, probes[i]).value
    THEN {i}
    ELSE {i} \cup check_all_evaluated(conditions, t, probes, i + 1)

\* the conditions a `for condition in conditions[i..]` loop over
\* _check_single_condition evaluates: all of them, up to the first that raises
RECURSIVE each_evaluated(_, _, _, _)
each_evaluated(conditions, t, probes, i) ==
    IF i > Len(conditions) THEN {}
    ELSE IF check_condition(conditions[i], t, probes[i]).raised THEN {i}
    ELSE {i} \cup each_evaluated(conditions, t, probes, i + 1)

\* the conditions TaskExecutor._check_completion_conditions evaluates: those
\* of check_all_conditions and, when its verdict is false, those of the
\* display loop
TaskExecutor_conditions_evaluated(t, probes) ==
    check_all_evaluated(t.completion_conditions, t, probes, 1) \cup
    (IF check_all_conditions(t, probes) = Return(FALSE)
     THEN each_evaluated(t.completion_conditions, t, probes, 1)
     ELSE {})

\* the conditions NaturalLanguageTaskExecutor._check_completion_conditions
\* evaluates
NL_conditions_evaluated(t, probes) ==
    IF t.generated_conditions = None \/ Val(t.generated_conditions) = <<>>
    THEN {}
    ELSE each_evaluated(Val(t.generated_conditions), t, probes, 1)

\* the all-conditions verdicts of every ordering of task.completion_conditions,
\* the verdict of each condition alone, and the conditions the two
\* completion checks evaluate, in one environment
CheckAllOrderings ==
    /\ \E env \in EnvsOf(task.completion_conditions) :
          all_verdicts' =
              Some([each |-> [i \in DOMAIN task.completion_conditions |->
                                 check_condition(task.completion_conditions[i], task,
                                                 env[task.completion_conditions[i]])],
                    orderings |-> [q \in Orderings(Len(task.completion_conditions)) |->
                                      VerdictsIn(task, q, env)],
                    evaluated |->
                        [plain |-> TaskExecutor_conditions_evaluated(
                                       task, ProbesIn(task.completion_conditions, env)),
                         nl |-> NL_conditions_evaluated(
                                    AsNLTask(task),
                                    ProbesIn(task.completion_conditions, env))]])
    /\ UNCHANGED <<loopVars, task, nltask, subrun, evalVars, cool_down, outcome, coolVars,
                   batchVars>>

\* task states between attempts: any loaded conditions, any captured output
AllCondTasks ==
    {[Task("t", <<"c">>, cs, DefaultMaxRetries, DefaultTimeout) EXCEPT !.last_output = o] :
        cs \in CondSeqs, o \in {None, Some(EmptyStr), Some(DonePattern)}}

AllCondInit ==
    /\ LoopInit
    /\ task \in AllCondTasks
    /\ nltask = IdleNLTask
    /\ EvalIdle
    /\ PureIdle
    /\ BatchIdle

AllCondNext == CheckAllOrderings

AllCondSpec == AllCondInit /\ [][AllCondNext]_vars

----------------------------------------------------------------------------
(* task_executor.py: TaskExecutor.execute_tasks *)

TaskId(i) == "t" \o ToString(i)

\* the conditions of the tasks of a collection: one the output decides, one
\* without its parameter
BatchConds == {<<OutputContains(Some(DonePattern))>>, <<FileExists(None)>>}

\* collections of at most MaxBatch tasks with distinct ids, in any order
Batches ==
    UNION {{b \in [1..n -> {Task(TaskId(k), <<"c">>, cs, 1, DefaultTimeout) :
                               k \in 1..MaxBatch, cs \in BatchConds}] :
               \A i, j \in 1..n : b[i].id = b[j].id => i = j} :
           n \in 0..MaxBatch}

\* for task in tasks: success = self.execute_task_until_completion(task)
\* is called on the next task
ExecuteTasksCall ==
    /\ pc = "idle"
    /\ current < Len(tasks)
    /\ current' = current + 1
    /\ task' = tasks[current + 1]
    /\ max_attempts' = tasks[current + 1].max_retries
    /\ attempt' = 1
    /\ ret' = None
    /\ pc' = "loop"
    /\ trace' = Append(trace, Ev(tasks[current + 1].id, "call"))
    /\ UNCHANGED <<tasks, results, nltask, subrun, evalVars, pureVars>>

\* results[task.id] = {'success': success, 'task': task}
ExecuteTasksStore ==
    /\ pc = "done"
    /\ results' = (task.id :> [success |-> Val(ret), task |-> task]) @@ results
    /\ tasks' = [tasks EXCEPT ![current] = task]
    /\ trace' = Append(trace, Ev(task.id, IF Val(ret) THEN "returned_true"
                                          ELSE "returned_false"))
    /\ pc' = "idle"
    /\ UNCHANGED <<attempt, max_attempts, ret, task, current, nltask, subrun,
                   evalVars, pureVars>>

\* return results
ExecuteTasksReturn ==
    /\ pc = "idle"
    /\ current = Len(tasks)
    /\ pc' = "returned"
    /\ UNCHANGED <<attempt, max_attempts, ret, trace, task, nltask, subrun,
                   evalVars, pureVars, batchVars>>

\* TaskExecutor.execute_tasks on a loaded collection; an exception of the
\* retry loop ("raised") leaves execute_tasks too
BatchInit ==
    /\ LoopInit
    /\ task = IdleTask
    /\ nltask = IdleNLTask
    /\ EvalIdle
    /\ PureIdle
    /\ tasks \in Batches
    /\ results = NoResults
    /\ current = 0

BatchNext ==
    ExecuteTasksCall \/ Attempt \/ Exhausted \/ ExecuteTasksStore \/ ExecuteTasksReturn

BatchSpec == BatchInit /\ [][BatchNext]_vars

----------------------------------------------------------------------------
(* Properties *)

\* the entries of the history made by `who` with an op in `ops`
Entries(who, ops) == {i \in DOMAIN trace : trace[i].who = who /\ trace[i].op \in ops}

\* how often the command of the task the loop was called on has been run
MainRuns == Cardinality(Entries("main", RunOps))

WaitOps == {"cooldown", "sleep5", "sleep10", "sleep30"}

\* the run of the retry loop has returned
Returned == pc = "done"

\* C1: a run of execute_task_until_completion executes the command at most
\* max_retries times; when the all-conditions check was false after every
\* attempt and the run has returned, it executed the command exactly
\* max_retries times and returned false.
C1_AttemptsBounded ==
    /\ MainRuns <= task.max_retries
    /\ (Returned /\ Entries("main", {"check_true", "check_raise"}) = {})
          => (MainRuns = task.max_retries /\ ret = Some(FALSE))

\* C1 witness: three attempts, none complete, and the loop returned false
C1_Witness ==
    /\ Returned
    /\ ret = Some(FALSE)
    /\ task.max_retries = 3
    /\ MainRuns = 3
    /\ Cardinality(Entries("main", {"check_false"})) = 3

\* C2: for a task with an empty completion_conditions sequence the
\* all-conditions verdict is false after every attempt and the retry loop
\* never returns true.
C2_EmptyConditionsNeverComplete ==
    task.completion_conditions = <<>>
        => (Entries("main", {"check_true"}) = {} /\ ret # Some(TRUE))

\* C3: the retry loop never raises: every call ends by returning a verdict.
C3_NeverRaises == pc # "raised"

\* the required parameter of the kind of condition c is absent
MissingRequired(c) ==
    \/ c.type = Some("file_exists") /\ c.path = None
    \/ c.type \in {Some("output_contains"), Some("output_not_contains")} /\ c.pattern = None
    \/ c.type = Some("file_contains") /\ (c.path = None \/ c.pattern = None)
    \/ c.type = Some("website_exists") /\ c.url = None
    \/ c.type = Some("test_command") /\ c.command = None
    \/ c.type = Some("claude_code_confirmation") /\ c.prompt = None

\* C4: check_condition returns false without raising when the required
\* parameter of a known kind is absent, for every task state.
C4_MissingParameterIsFalse ==
    (verdict # None /\ MissingRequired(cond))
        => (~Val(verdict).raised /\ ~Val(verdict).value)

\* C5: when the all-conditions check is true after attempt k the loop
\* returns true at once: retry_count is k, nothing (no attempt, no wait)
\* follows the verdict; and the loop returns true only after a true verdict
\* of the last attempt executed.
C5_ReturnsOnFirstTrue ==
    /\ \A i \in Entries("main", {"check_true"}) :
          /\ i = Len(trace)
          /\ Returned
          /\ ret = Some(TRUE)
          /\ Cardinality(Entries("main", {"check_false"})) = task.retry_count - 1
          /\ attempt = task.retry_count
          /\ MainRuns = task.retry_count
    /\ ret = Some(TRUE)
          => (trace # <<>> /\ trace[Len(trace)] = Ev("main", "check_true"))

\* C5 witness: the second attempt is the first to complete
C5_Witness ==
    /\ ret = Some(TRUE)
    /\ task.retry_count = 2
    /\ Cardinality(Entries("main", {"check_false"})) = 1
    /\ Cardinality(Entries("main", WaitOps)) >= 1

\* C6: with max_retries = 2, a command that always exits non-zero and
\* conditions that are never satisfied, the loop attempts exactly twice,
\* applies exactly one wait between the two attempts and returns false.
C6_OneWaitBetweenTwoFailures ==
    (/\ task.max_retries = 2
     /\ Returned
     /\ Entries("main", {"run_exit0", "run_timeout", "run_fault"}) = {}
     /\ Entries("main", {"check_true"}) = {})
        => (/\ Cardinality(Entries("main", {"run_nonzero"})) = 2
            /\ Cardinality(Entries("main", WaitOps)) = 1
            /\ ret = Some(FALSE))

\* C7: an output_not_contains condition with any pattern (the empty one
\* included) is true on a task whose last_output is None, in both evaluators.
C7_NotContainsVacuouslyTrue ==
    (cond.type = Some("output_not_contains") /\ cond.pattern # None
        /\ ctask.last_output = None)
        => (/\ verdict # None => (~Val(verdict).raised /\ Val(verdict).value)
            /\ cverdict # None => (~Val(cverdict).raised /\ Val(cverdict).value))

\* C8: when the initial command synthesis of the main task fails, the loop
\* aborts and returns false: no synthesis request, failure analysis,
\* sub-task or attempt follows, and retry_count is unchanged.
C8_SynthesisFailureAborts ==
    \A i \in Entries("main", {"synth_cmd_failed"}) :
        /\ \A j \in DOMAIN trace :
              j > i => trace[j].op \notin
                          (RunOps \cup {"synth_cmd", "synth_cond", "analysis", "subtask_request"})
        /\ nltask.retry_count = 0
        /\ ret # Some(TRUE)

\* C9: a run of execute_natural_language_task_until_completion executes the
\* main task's command at most max_retries times, and when it returns false
\* the main task's retry_count equals max_retries.
C9_MainAttemptsBounded ==
    /\ MainRuns <= nltask.max_retries
    /\ (Returned /\ ret = Some(FALSE)) => nltask.retry_count = nltask.max_retries

\* the completion conditions of the sub-task t all hold
SubtaskConditionsMet(t) ==
    \A probes \in ProbesOf(t) : LET c == NL_check_completion_conditions(t, probes)
                                IN ~c.raised /\ c.value

\* C10: a corrective sub-task is driven by the plain retry loop: its command
\* is retried until its own conditions all hold or its own max_retries is
\* exhausted, and it counts as succeeded exactly when its conditions were met.
C10_SubtaskRunByRetryLoop ==
    subrun # None =>
        LET s == Val(subrun) IN
        /\ s.success <=> SubtaskConditionsMet(s.task)
        /\ s.runs <= s.task.max_retries
        /\ ~SubtaskConditionsMet(s.task) => s.runs = s.task.max_retries


\* the corrective sub-tasks the main task owns
OwnedSubtasks == IF nltask.subtasks = None THEN <<>> ELSE Val(nltask.subtasks)

\* how often a corrective sub-task's command has been run
SubRuns == Cardinality(Entries("sub", RunOps))

\* C11: corrective recursion is single-level: no sub-task has sub-tasks of
\* its own, no failure analysis or improvement request is issued on behalf
\* of a sub-task, and no sub-task is owned twice.
C11_SingleLevelRecursion ==
    /\ \A i \in DOMAIN OwnedSubtasks : OwnedSubtasks[i].subtasks = None
    /\ \A i, j \in DOMAIN OwnedSubtasks : OwnedSubtasks[i] = OwnedSubtasks[j] => i = j
    /\ subrun # None => Val(subrun).task.subtasks = None
    /\ Entries("sub", {"analysis", "analysis_failed", "subtask_request"}) = {}

\* C11 witness: an owned improvement sub-task and a repair sub-task have
\* both been run
C11_Witness ==
    /\ OwnedSubtasks # <<>>
    /\ OwnedSubtasks[1].retry_count >= 1
    /\ Entries("main", {"analysis"}) # {}
    /\ subrun # None
    /\ Val(subrun).task.description = "repair"
    /\ SubRuns >= 2


\* the history entries the step under way appends
NewEvents == SubSeq(trace', Len(trace) + 1, Len(trace'))

\* the step under way ran a corrective sub-task's command and it exited 0
SubtaskSucceeds == \E i \in DOMAIN NewEvents : NewEvents[i] = Ev("sub", "run_exit0")

\* the step under way ends with the wait of the loop's tail, when one is due
FallsThroughToWait ==
    IF attempt < max_attempts
    THEN NewEvents # <<>> /\ NewEvents[Len(NewEvents)].op \in {"cooldown", "sleep30"}
    ELSE \A i \in DOMAIN NewEvents : NewEvents[i].op \notin WaitOps

\* C12: after a failed main attempt, generated_command becomes the repaired
\* command if and only if the repair sub-task carrying it ran successfully
\* (then the loop waits 5 s and continues); if the sub-task failed or the
\* analysis raised, generated_command is unchanged and the iteration ends
\* with the normal wait.
C12_PromotionOnlyOnSuccess ==
    [][pc = "analyze" =>
          /\ SubtaskSucceeds =>
                /\ subrun' # None
                /\ nltask'.generated_command = Val(subrun').task.generated_command
                /\ Entries("main", {"analysis"})' # {}
                /\ NewEvents[Len(NewEvents)] = Ev("main", "sleep5")
          /\ ~SubtaskSucceeds =>
                /\ nltask'.generated_command = nltask.generated_command
                /\ FallsThroughToWait
          /\ pc' = "loop"
          /\ attempt' = attempt + 1]_vars

\* C12 witness: a repaired command was promoted after its sub-task succeeded
C12_Witness ==
    /\ nltask.generated_command = Some(<<"r">>)
    /\ subrun # None
    /\ Val(subrun).task.generated_command = Some(<<"r">>)
    /\ Val(subrun).success
    /\ trace[Len(trace)] = Ev("main", "sleep5")
    /\ Entries("main", {"analysis_failed"}) # {}


\* the entries that end one execution of a corrective sub-task: its command
\* was run, or its command could not be synthesized
SubtaskExecutions == Entries("sub", RunOps \cup {"synth_cmd_failed"})

\* the completion checks of the main loop, one per iteration
MainChecks == Entries("main", {"check_true", "check_false", "check_raise"})

\* C13: at most one corrective sub-task execution happens per iteration of
\* the main loop (two executions are always separated by the completion
\* check of a later iteration, and none precedes the first check), and a run
\* whose conditions were never met returns false after max_retries
\* iterations.
C13_OneSubtaskPerIteration ==
    /\ \A i, j \in SubtaskExecutions :
          i < j => \E k \in MainChecks : i < k /\ k < j
    /\ \A i \in SubtaskExecutions : \E k \in MainChecks : k < i
    /\ Cardinality(SubtaskExecutions) <= Cardinality(MainChecks)
    /\ (Returned /\ Entries("main", {"check_true"}) = {})
          => /\ ret = Some(FALSE)
             /\ Cardinality(MainChecks) = nltask.max_retries
    /\ ret = Some(FALSE) => Cardinality(MainChecks) = nltask.max_retries

\* C13 witness: three iterations, each with its corrective sub-task, of both
\* sorts, and the loop returned false
C13_Witness ==
    /\ Returned
    /\ ret = Some(FALSE)
    /\ nltask.max_retries = 3
    /\ Cardinality(SubtaskExecutions) = 3
    /\ Entries("main", {"analysis"}) # {}
    /\ OwnedSubtasks # <<>>


\* C14: for every task object (the main task, every owned sub-task, the
\* sub-task run last) retry_count never exceeds the task's own max_retries
\* and never decreases.
C14_RetryCountWithinBudget ==
    /\ [](/\ nltask.retry_count <= nltask.max_retries
          /\ \A i \in DOMAIN OwnedSubtasks :
                OwnedSubtasks[i].retry_count <= OwnedSubtasks[i].max_retries
          /\ subrun # None => Val(subrun).task.retry_count <= Val(subrun).task.max_retries)
    /\ [][/\ nltask'.retry_count >= nltask.retry_count
          /\ \A i \in DOMAIN OwnedSubtasks :
                OwnedSubtasks'[i].retry_count >= OwnedSubtasks[i].retry_count]_vars


\* C15: executing a corrective sub-task leaves the main task's retry_count,
\* last_output and last_error as they were, and the main task's retry_count
\* is always the number of times its own command was executed.
C15_SubtaskLeavesMainCounters ==
    /\ [](nltask.retry_count = MainRuns)
    /\ [][(pc \in {"improve", "analyze"} \/ SubRuns' # SubRuns) =>
             /\ nltask'.retry_count = nltask.retry_count
             /\ nltask'.last_output = nltask.last_output
             /\ nltask'.last_error = nltask.last_error]_vars

\* C15 witness: sub-tasks ran in two iterations of a main task that ran twice
C15_Witness ==
    /\ nltask.retry_count = 2
    /\ MainRuns = 2
    /\ SubRuns >= 2
    /\ OwnedSubtasks # <<>>
    /\ OwnedSubtasks[1].last_output # nltask.last_output


UnknownKindOf(c) == c.type = None \/ Val(c.type) \notin KnownKinds

\* C17: for a condition record of an unknown kind, or with no type, both
\* evaluators return false without raising, for every task state.
C17_UnknownKindIsFalse ==
    UnknownKindOf(cond) =>
        /\ verdict # None => (~Val(verdict).raised /\ ~Val(verdict).value)
        /\ cverdict # None => (~Val(cverdict).raised /\ ~Val(cverdict).value)

\* C17 witness: both evaluators were called on a record with no type
C17_Witness ==
    /\ cond.type = None
    /\ verdict # None
    /\ cverdict # None
    /\ ctask.last_output # None


\* the conjunction of the verdicts of the conditions taken one by one
EachHolds == \A i \in DOMAIN Val(all_verdicts).each : Val(all_verdicts).each[i].value
NoneRaises == \A i \in DOMAIN Val(all_verdicts).each : ~Val(all_verdicts).each[i].raised

\* C18: for a non-empty condition sequence, a fixed task state and a fixed
\* environment, the all-conditions verdict is the same for every ordering
\* of the sequence, in the plain and in the natural-language check, and it
\* is the conjunction of the verdicts of the conditions.
C18_VerdictIsOrderFreeConjunction ==
    (all_verdicts # None /\ task.completion_conditions # <<>>) =>
        \A q \in DOMAIN Val(all_verdicts).orderings :
            /\ \A r \in DOMAIN Val(all_verdicts).orderings :
                  Val(all_verdicts).orderings[q] = Val(all_verdicts).orderings[r]
            /\ NoneRaises =>
                  /\ Val(all_verdicts).orderings[q].plain = Return(EachHolds)
                  /\ Val(all_verdicts).orderings[q].nl = Return(EachHolds)


\* the command of `who` is run right after entry i of the history, or after
\* the cool-down that follows it
RunFollows(i) ==
    /\ i < Len(trace)
    /\ trace[i + 1].who = trace[i].who
    /\ \/ trace[i + 1].op \in RunOps
       \/ /\ trace[i + 1].op = "cooldown"
          /\ i + 1 < Len(trace)
          /\ trace[i + 2].who = trace[i].who
          /\ trace[i + 2].op \in RunOps

\* C19: condition synthesis is never a hard failure: whatever the assistant
\* answered (failure, timeout, no JSON, malformed JSON, a JSON object), the
\* task's generated_conditions is the single default condition, the attempt
\* goes on to run the command, and once an attempt of the main task has run
\* its generated_conditions is neither None nor empty (a sub-task's, which
\* the assistant may have supplied, is not None).
C19_ConditionSynthesisDegrades ==
    /\ \A i \in DOMAIN trace : trace[i].op = "synth_cond" => RunFollows(i)
    /\ Entries("main", {"synth_cond"}) # {}
          => nltask.generated_conditions = Some(DefaultConditions)
    /\ nltask.retry_count >= 1
          => (nltask.generated_conditions # None /\ Val(nltask.generated_conditions) # <<>>)
    /\ (subrun # None /\ Val(subrun).runs >= 1)
          => Val(subrun).task.generated_conditions # None

\* C19 witness: the conditions of the main task and of a sub-task were
\* synthesized lazily (every answer of the assistant leads to this state)
\* and both commands were run
C19_Witness ==
    /\ Entries("main", {"synth_cond"}) # {}
    /\ Entries("sub", {"synth_cond"}) # {}
    /\ nltask.generated_conditions = Some(DefaultConditions)
    /\ nltask.retry_count >= 1
    /\ subrun # None
    /\ Val(subrun).runs = 1
    /\ Val(subrun).task.generated_conditions = Some(DefaultConditions)


\* the calls of the retry loop made so far, in order
LoopCalls == SelectSeq(trace, LAMBDA e : e.op = "call")

\* execute_tasks is over: it returned, or an exception left it
BatchOver == pc \in {"returned", "raised"}

\* C20: execute_tasks runs the retry loop on every task of the collection
\* exactly once, in the declared order, whatever earlier tasks returned, and
\* the results hold one entry per task with that task's own loop verdict.
C20_EveryTaskOnceInOrder ==
    /\ Len(LoopCalls) <= Len(tasks)
    /\ \A i \in DOMAIN LoopCalls : LoopCalls[i].who = tasks[i].id
    /\ \A id \in DOMAIN results :
          results[id].success <=> Entries(id, {"returned_true"}) # {}
    /\ BatchOver =>
          /\ Len(LoopCalls) = Len(tasks)
          /\ DOMAIN results = {tasks[i].id : i \in DOMAIN tasks}
          /\ \A i \in DOMAIN tasks :
                Cardinality(Entries(tasks[i].id, {"returned_true", "returned_false"})) = 1

IsPrefix(s, t) == Len(s) <= Len(t) /\ SubSeq(t, 1, Len(s)) = s
RecordsKept == \A k \in KnownKinds : IsPrefix(condition_history[k], condition_history'[k])
KindOf(c) == IF c.type = None THEN "" ELSE Val(c.type)

\* C22: every evaluation by ConditionChecker._check_single_condition, of a
\* condition of any kind, an unknown kind included, appends exactly one
\* record (kind, result) to condition_history when it returns, and no record
\* is removed or modified
C22_EveryEvaluationLogged ==
    [][/\ RecordsKept
       /\ (cverdict' # cverdict /\ ~Val(cverdict').raised) =>
             /\ HistorySize(condition_history') = HistorySize(condition_history) + 1
             /\ \E k \in KnownKinds :
                   /\ k = KindOf(cond)
                   /\ Len(condition_history'[k]) = Len(condition_history[k]) + 1
                   /\ LET e == condition_history'[k][Len(condition_history'[k])] IN
                      /\ e.type = k
                      /\ e.result = Val(cverdict').value]_vars

\* C23: utils.check_condition on an output_contains condition is true exactly
\* when the pattern is a substring of last_output, a None last_output being
\* the empty str, for every pattern, the empty one included
C23_OutputContainsIsSubstring ==
    (verdict # None /\ cond.type = Some("output_contains") /\ cond.pattern # None) =>
        /\ ~Val(verdict).raised
        /\ Val(verdict).value = Contains(OrEmpty(ctask.last_output), Val(cond.pattern))

\* the step under way asked for a failure analysis and got no repaired
\* command: the assistant failed, timed out, or answered without text
AnalysisRequestFailed ==
    \E i \in DOMAIN NewEvents : NewEvents[i].op \in {"analysis_failed", "analysis_empty"}

\* C24: when the failure-analysis request fails (assistant error, timeout or
\* malformed response), only the corrective branch fails: no sub-task is
\* executed, the main task is unchanged, nothing is raised, and the loop
\* applies its normal wait and goes on to the next attempt
C24_AnalysisFailureIsLocal ==
    [][(pc = "analyze" /\ AnalysisRequestFailed) =>
           /\ \A i \in DOMAIN NewEvents : NewEvents[i].who # "sub"
           /\ nltask' = nltask
           /\ subrun' = subrun
           /\ pc' = "loop"
           /\ attempt' = attempt + 1
           /\ FallsThroughToWait]_vars

\* the main command runs among the first i history entries
MainRunsUpTo(i) == Cardinality({j \in Entries("main", RunOps) : j <= i})

\* entry i is a successful run of the main command and entry i + 1 the
\* verdict that the conditions are not all met
SucceededIncomplete(i) ==
    /\ i + 1 <= Len(trace)
    /\ trace[i] = Ev("main", "run_exit0")
    /\ trace[i + 1] = Ev("main", "check_false")

LastMainCheck == CHOOSE k \in MainChecks : \A j \in MainChecks : j <= k

\* C26: in both retry loops, when the conditions are not met after the last
\* permitted attempt, the loop returns false without any wait after that
\* attempt: no 5-second, 10-second, 30-second or cooldown sleep
C26_NoWaitAfterLastAttempt ==
    (Returned /\ ret = Some(FALSE) /\ MainChecks # {}) =>
        \A j \in DOMAIN trace : j > LastMainCheck => trace[j].op \notin WaitOps

\* C27: in the natural-language loop, when a non-final attempt succeeds
\* without completion and its improvement sub-task fails, the wait before
\* the next attempt is the 10 seconds of the plain retry loop
C27_TenSecondsAfterFailedImprovement ==
    [][(pc = "improve" /\ attempt < max_attempts /\ subrun' # None /\ ~Val(subrun').success) =>
           {NewEvents[i].op : i \in {j \in DOMAIN NewEvents : NewEvents[j].op \in WaitOps}}
               = {"sleep10"}]_vars

\* C28: on an attempt of either retry loop the completion check evaluates
\* every declared condition of the task at least once, also when an earlier
\* condition of the sequence is unsatisfied, of unknown kind or faulty
C28_EveryConditionEvaluated ==
    all_verdicts # None =>
        /\ Val(all_verdicts).evaluated.plain = DOMAIN task.completion_conditions
        /\ Val(all_verdicts).evaluated.nl = DOMAIN task.completion_conditions

\* the runs of the main command in the step under way
NewMainRuns == {i \in DOMAIN NewEvents : NewEvents[i].who = "main" /\ NewEvents[i].op \in RunOps}

\* the step under way ran the main command and it met the outcome `op`
NewMainRun(op) == \E i \in NewMainRuns : NewEvents[i].op = op

\* C29: a call of execute_task runs the command exactly once, stores the
\* output and the error of the outcome in last_output and last_error and
\* adds exactly 1 to retry_count; after a successful run last_error is None
\* whatever it was before; command, conditions, max_retries and timeout
\* are unchanged
C29_ExecuteTaskFrame ==
    [][(pc = "loop" /\ attempt <= max_attempts) =>
           /\ Cardinality(NewMainRuns) = 1
           /\ task'.retry_count = task.retry_count + 1
           /\ task'.command = task.command
           /\ task'.completion_conditions = task.completion_conditions
           /\ task'.max_retries = task.max_retries
           /\ task'.timeout = task.timeout
           /\ task'.id = task.id
           /\ NewMainRun("run_exit0") =>
                 task'.last_error = None /\ task'.last_output \in {Some(EmptyStr), Some(<<"d">>)}
           /\ NewMainRun("run_nonzero") =>
                 /\ <<task'.last_output, task'.last_error>> \in
                        {<<Some(EmptyStr), Some(EmptyStr)>>, <<Some(<<"d">>), Some(<<"e">>)>>}
           /\ NewMainRun("run_timeout") =>
                 task'.last_output = None /\ task'.last_error = Some(TimeoutError(task.timeout))
           /\ NewMainRun("run_fault") =>
                 task'.last_output = None /\ task'.last_error = Some(FaultError)]_vars

\* the first attempt recorded an error and output, the second succeeded
\* with other output: the error is gone
C29_Witness ==
    /\ task.retry_count = 2
    /\ Len(trace) >= 4
    /\ trace[1] = Ev("main", "run_nonzero")
    /\ \E i \in DOMAIN trace : i > 1 /\ trace[i] = Ev("main", "run_exit0")
    /\ task.last_error = None
    /\ task.last_output = Some(EmptyStr)

\* C30: execute_command always returns an ExecutionResult: exit code 0 gives
\* success with the captured output and error None; another exit code gives
\* failure with the captured output and error; a timeout gives failure with
\* an error naming the timeout bound; any other fault gives failure with the
\* description of the fault; no failure leaves error None
C30_ExecuteCommandOutcomes ==
    outcome # None =>
        /\ (Val(outcome).fate.kind = "exit" /\ Val(outcome).fate.returncode = 0) =>
               Val(outcome).result =
                   ExecutionResult(TRUE, Some(Val(outcome).fate.stdout), None)
        /\ (Val(outcome).fate.kind = "exit" /\ Val(outcome).fate.returncode # 0) =>
               Val(outcome).result =
                   ExecutionResult(FALSE, Some(Val(outcome).fate.stdout),
                                   Some(Val(outcome).fate.stderr))
        /\ Val(outcome).fate.kind = "timeout" =>
               /\ ~Val(outcome).result.success
               /\ Val(outcome).result.error = Some(TimeoutError(Val(outcome).timeout))
        /\ Val(outcome).fate.kind = "fault" =>
               /\ ~Val(outcome).result.success
               /\ Val(outcome).result.error = Some(FaultError)
        /\ ~Val(outcome).result.success => Val(outcome).result.error # None

\* the command of a sub-task outlived its timeout of 120 s
C30_Witness ==
    /\ outcome # None
    /\ Val(outcome).fate = TimeoutExpired
    /\ Val(outcome).timeout = SubtaskTimeout
    /\ ~Val(outcome).result.success

\* C31: when every command, probe, assistant call and sleep terminates,
\* every run of execute_task_until_completion and of
\* execute_natural_language_task_until_completion eventually returns
\* (completed or exhausted)
C31_EventuallyReturns == <>Returned

\* the improvement requests: a sub-task is requested right after the verdict
\* of a successful attempt (a repair is requested after the analysis)
ImprovementRequests ==
    {i \in Entries("main", {"subtask_request"}) : i > 1 /\ trace[i - 1].op = "check_false"}

\* C32: over a whole run of a natural-language main task an improvement
\* sub-task is requested at most once: the first successful-but-incomplete
\* attempt makes subtasks a list of one sub-task, every later one runs that
\* same sub-task, the list never holds more than one, and the repair
\* sub-tasks of failed attempts are not added to it
C32_OneImprovementSubtask ==
    /\ [](Cardinality(ImprovementRequests) <= 1 /\ Len(OwnedSubtasks) <= 1)
    /\ [][/\ pc = "improve" =>
              /\ nltask'.subtasks # None
              /\ Len(Val(nltask'.subtasks)) = 1
              /\ subrun' = Some([task |-> Val(nltask'.subtasks)[1],
                                 success |-> Val(subrun').success,
                                 runs |-> Val(subrun').runs])
              /\ nltask.subtasks # None =>
                    /\ Val(nltask'.subtasks)[1].id = Val(nltask.subtasks)[1].id
                    /\ Val(nltask'.subtasks)[1].retry_count
                          = Val(nltask.subtasks)[1].retry_count + Val(subrun').runs
                    /\ \A i \in DOMAIN NewEvents : NewEvents[i].op # "subtask_request"
          /\ pc = "analyze" => nltask'.subtasks = nltask.subtasks]_vars

\* one request, and the one sub-task ran after two attempts; a repair
\* sub-task ran after a failed attempt in between
C32_Witness ==
    /\ Cardinality(ImprovementRequests) = 1
    /\ Len(OwnedSubtasks) = 1
    /\ OwnedSubtasks[1].retry_count = 2
    /\ Entries("main", {"analysis_command"}) # {}

\* the step under way issued the synthesis request `op` for `who`
Requested(who, op) == \E i \in DOMAIN NewEvents : NewEvents[i] = Ev(who, op)

\* the sub-task the main task owns, when the step under way is the
\* improvement branch running it again
Reused == Val(nltask.subtasks)[1]

\* C33: synthesis is lazy: no command is requested for a task whose
\* generated_command is set, no conditions are requested for a task whose
\* generated_conditions are set, and conditions are never requested, nor
\* set, before the task has a command
C33_LazySynthesis ==
    /\ [](nltask.generated_conditions # None => nltask.generated_command # None)
    /\ [][/\ nltask.generated_command # None => ~Requested("main", "synth_cmd")
          /\ nltask.generated_conditions # None => ~Requested("main", "synth_cond")
          /\ Requested("main", "synth_cond") =>
                /\ nltask'.generated_command # None
                /\ ~Requested("main", "synth_cmd_failed")
          /\ (pc = "improve" /\ ~NoSubtasks(nltask)) =>
                /\ Reused.generated_command # None => ~Requested("sub", "synth_cmd")
                /\ Reused.generated_conditions # None => ~Requested("sub", "synth_cond")
          /\ Requested("sub", "synth_cond") =>
                /\ Val(subrun').task.generated_command # None
                /\ ~Requested("sub", "synth_cmd_failed")]_vars

\* the main command ran three times on one command request and one
\* condition request
C33_Witness ==
    /\ MainRuns = 3
    /\ Cardinality(Entries("main", {"synth_cmd"})) = 1
    /\ Cardinality(Entries("main", {"synth_cond"})) = 1
    /\ nltask.generated_command # None
    /\ nltask.generated_conditions # None

\* C34: apply_cool_down(seconds) makes exactly `seconds` one-second sleeps,
\* none when seconds <= 0, before it returns, and once it has started
\* every step before the return is one more sleep
C34_CoolDownSleepsSeconds ==
    /\ [](/\ pc = "returned" => slept = (IF seconds > 0 THEN seconds ELSE 0)
          /\ pc = "cooling" => slept + remaining = seconds)
    /\ [][pc = "cooling" => \/ /\ slept < seconds
                               /\ slept' = slept + 1
                               /\ pc' = "cooling"
                            \/ /\ slept >= seconds
                               /\ slept' = slept
                               /\ pc' = "returned"]_vars

\* the default cooldown has returned after its 60 sleeps
C34_Witness ==
    /\ pc = "returned"
    /\ seconds = CoolDownSeconds
    /\ slept = CoolDownSeconds

\* entry i is a failed run of the main command and entry i + 1 the verdict
\* that the conditions are not all met
FailedIncomplete(i) ==
    /\ i + 1 <= Len(trace)
    /\ trace[i].who = "main"
    /\ trace[i].op \in {"run_nonzero", "run_timeout", "run_fault"}
    /\ trace[i + 1] = Ev("main", "check_false")

FailedComplete(i) ==
    /\ i + 1 <= Len(trace)
    /\ trace[i].who = "main"
    /\ trace[i].op \in {"run_nonzero", "run_timeout", "run_fault"}
    /\ trace[i + 1] = Ev("main", "check_true")

\* C36: in both retry loops the verdict does not depend on the success
\* flag of the attempt: when all conditions hold after an attempt whose
\* command failed, the loop returns true on that attempt, and neither a
\* failure analysis nor a corrective sub-task nor a wait follows
C36_VerdictIgnoresSuccessFlag ==
    \A i \in DOMAIN trace :
        FailedComplete(i) =>
            /\ Len(trace) = i + 1
            /\ pc = "done"
            /\ ret = Some(TRUE)

\* the second attempt of a natural-language task exited non-zero with the
\* pattern in its output, and the loop returned true
C36_Witness ==
    /\ Len(trace) >= 2
    /\ FailedComplete(Len(trace) - 1)
    /\ trace[Len(trace) - 1] = Ev("main", "run_nonzero")
    /\ nltask.retry_count = 2
    /\ nltask.last_error # None
    /\ ret = Some(TRUE)

\* the step under way is an attempt whose command timed out or faulted
NewRunWithoutOutput == NewMainRun("run_timeout") \/ NewMainRun("run_fault")

\* C37: an attempt that ends in a timeout or fault sets last_output to
\* None, whatever an earlier attempt captured; after it a task whose only
\* condition is output_not_contains with a pattern completes, and a task
\* whose only condition is output_contains with a pattern does not
C37_TimeoutResetsOutput ==
    [][(pc = "loop" /\ NewRunWithoutOutput) =>
           /\ task'.last_output = None
           /\ task.completion_conditions = <<OutputNotContains(Some(<<"d">>))>> =>
                 /\ NewEvents[Len(NewEvents)] = Ev("main", "check_true")
                 /\ pc' = "done"
                 /\ ret' = Some(TRUE)
           /\ task.completion_conditions = <<OutputContains(Some(<<"d">>))>> =>
                 /\ \E i \in DOMAIN NewEvents : NewEvents[i] = Ev("main", "check_false")
                 /\ ret' = None]_vars

\* the first attempt printed the pattern, the second timed out, and the
\* task whose only condition is output_not_contains completed
C37_Witness ==
    /\ task.completion_conditions = <<OutputNotContains(Some(<<"d">>))>>
    /\ Len(trace) >= 5
    /\ trace[1] = Ev("main", "run_exit0")
    /\ trace[2] = Ev("main", "check_false")
    /\ trace[Len(trace) - 1] = Ev("main", "run_timeout")
    /\ trace[Len(trace)] = Ev("main", "check_true")
    /\ task.last_output = None
    /\ task.retry_count = 2
    /\ ret = Some(TRUE)

C39_EvaluatorsAgree ==
    (/\ verdict # None
     /\ cverdict # None
     /\ cond.type \in {Some("output_contains"), Some("output_not_contains")}
     /\ cond.pattern # None)
        => /\ Val(verdict).raised = Val(cverdict).raised
           /\ Val(verdict).value = Val(cverdict).value

====
